---- MODULE Spec2Model ----
(***************************************************************************)
(* A model of the search pipeline of probe: perform_probe and the          *)
(* combined-regex scanner of src/src/search/search_runner.rs.              *)
(*                                                                         *)
(* Text is modelled as sequences of one-character strings.  A line is a    *)
(* record [text, pad]: `text` is the part of the line that patterns can    *)
(* match, `pad` the number of further bytes on the line that match         *)
(* nothing, so that a line longer than 2000 bytes needs no 2000-element    *)
(* sequence.                                                               *)
(***************************************************************************)
EXTENDS Integers, Sequences, FiniteSets, TLC

VARIABLES
    cache,      \* session cache storage: [files: the session ids that have a cache
                \* file, entries: the cached regions [sid, file, s, e]]
    genCount,   \* number of session ids generated so far
    inv,        \* per process: the perform_probe invocation it runs or has finished
    returned,   \* history: [sid, filesOnly, file, s, e] of the results of earlier invocations
    last,       \* history: the previous finished invocation
    runs,       \* history: number of invocations started
    scanIn,     \* scanner harness: the arguments of search_file_with_combined_pattern
    scanOut,    \* scanner harness: its return value
    scanPc      \* scanner harness: "idle" | "ready" | "done"

probeVars == <<cache, genCount, inv, returned, last, runs>>

scanVars == <<scanIn, scanOut, scanPc>>

vars == <<cache, genCount, inv, returned, last, runs, scanIn, scanOut, scanPc>>

----------------------------------------------------------------------------
(* Generic helpers *)

SetMin(S) == CHOOSE x \in S : \A y \in S : x <= y

SetMax(S) == CHOOSE x \in S : \A y \in S : y <= x

RECURSIVE SumOver(_, _)
SumOver(f, S) ==
    IF S = {} THEN 0
    ELSE LET x == CHOOSE y \in S : TRUE IN f[x] + SumOver(f, S \ {x})

NoScan == [ok |-> FALSE, map |-> <<>>]

----------------------------------------------------------------------------
(* Bounds of the scanner harness *)

MaxPatterns == 2

MaxScanLines == 2

(* The scanner skips lines longer than this many bytes. *)
MaxLineBytes == 2000

----------------------------------------------------------------------------
(* The regex engine as the scanner uses it.  A pattern source is a literal, *)
(* optionally wrapped in a capture group of its own: [lit, grp].            *)

Fold(c) == IF c = "A" THEN "a" ELSE IF c = "B" THEN "b" ELSE c

(* `lit` matches `text` at 1-based position `pos`, case-insensitively ((?i)). *)
MatchesAt(lit, text, pos) ==
    /\ pos >= 1
    /\ pos + Len(lit) - 1 <= Len(text)
    /\ \A k \in 1..Len(lit) : Fold(text[pos + k - 1]) = Fold(lit[k])

(* The text contains a substring matching the literal. *)
Contains(lit, text) == \E pos \in 1..Len(text) : MatchesAt(lit, text, pos)

(* format!("({})", p) joined with "|": entry k (1-based) opens capture group *)
(* number k plus the number of groups the earlier sources contain themselves. *)
OuterGroup(patterns, k) ==
    k + Cardinality({j \in 1..(k - 1) : patterns[j].src.grp})

(* The capture groups that participate when alternative k matches: its     *)
(* wrapping group and the source's own group.  The groups of the other     *)
(* alternatives do not participate in the match.                           *)
Participating(patterns, k) ==
    {OuterGroup(patterns, k)} \cup
    (IF patterns[k].src.grp THEN {OuterGroup(patterns, k) + 1} ELSE {})

(* One regex match of the combined alternation at or after `from`:         *)
(* leftmost position first, then the first alternative that matches there. *)
(* The result is a set holding the match, empty when there is none.        *)
NextMatch(patterns, text, from) ==
    LET starts == {p \in from..Len(text) :
                     \E k \in 1..Len(patterns) : MatchesAt(patterns[k].src.lit, text, p)}
    IN  IF starts = {} THEN {}
        ELSE LET pos == SetMin(starts)
                 k   == SetMin({i \in 1..Len(patterns) :
                                  MatchesAt(patterns[i].src.lit, text, pos)})
             IN  {[pos |-> pos, alt |-> k, end |-> pos + Len(patterns[k].src.lit),
                   groups |-> Participating(patterns, k)]}

(* Body of `for cap in combined_regex.captures_iter(line)`: the term indices *)
(* recorded for one line.  The loop looks at groups 1..pattern_to_terms.len() *)
(* and takes group i for pattern entry i-1.                                   *)
RECURSIVE LineTerms(_, _, _)
LineTerms(patterns, text, from) ==
    LET ms == NextMatch(patterns, text, from)
        m  == CHOOSE x \in ms : TRUE
    IN  IF ms = {} THEN {}
        ELSE UNION {patterns[i].terms : i \in {g \in 1..Len(patterns) : g \in m.groups}}
             \cup LineTerms(patterns, text, m.end)

LineBytes(line) == Len(line.text) + line.pad

(* A variant of the length test that also skips a line of exactly          *)
(* MaxLineBytes bytes.                                                     *)
ScannedBelow(line) == LineBytes(line) < MaxLineBytes

(* The lines the scanner looks at: those not longer than MaxLineBytes. *)
Scanned(line) == ~(LineBytes(line) > MaxLineBytes)

(* std::fs::read_to_string: fails when the file cannot be opened or read,   *)
(* and (ErrorKind::InvalidData) when its bytes are not valid UTF-8.         *)
ReadToString(file) == file.readable /\ file.utf8

(* search_file_with_combined_pattern: Ok(term index -> set of 1-based line  *)
(* numbers), the map holding only the term indices that were inserted, or   *)
(* Err when the file cannot be read.                                        *)
SearchFile(file, patterns) ==
    IF ~ReadToString(file) THEN [ok |-> FALSE, map |-> <<>>]
    ELSE LET hit(t) == {n \in 1..Len(file.lines) :
                          /\ Scanned(file.lines[n])
                          /\ t \in LineTerms(patterns, file.lines[n].text, 1)}
             allTerms == UNION {patterns[i].terms : i \in 1..Len(patterns)}
         IN  [ok |-> TRUE, map |-> [t \in {u \in allTerms : hit(u) # {}} |-> hit(t)]]

----------------------------------------------------------------------------
(* The tree that perform_probe searches: the ordered file list that        *)
(* get_file_list returns for the root.  A file has a name, its lines, the  *)
(* blocks its language adapter parses (inclusive 1-based line ranges), and *)
(* whether it can be read.  Files are numbered in path order.              *)

Ln(s) == [text |-> s, pad |-> 0]

Files == {1, 2, 3}

(* A file without any line, listed by some roots only. *)
EmptyFile == 4

Tree ==
    [f \in Files \cup {EmptyFile} |->
       CASE f = 1 -> [name |-> <<"x">>,
                      lines |-> <<Ln(<<"a">>), Ln(<<"a">>), Ln(<<"c">>), Ln(<<"a", "b">>)>>,
                      blocks |-> {[s |-> 1, e |-> 2], [s |-> 3, e |-> 3], [s |-> 4, e |-> 4]},
                      readable |-> TRUE, utf8 |-> TRUE]
         [] f = 2 -> [name |-> <<"y">>,
                      lines |-> <<Ln(<<"A", "b">>)>>,
                      blocks |-> {},
                      readable |-> TRUE, utf8 |-> TRUE]
         [] f = 3 -> [name |-> <<"c">>,
                      lines |-> <<Ln(<<"a", "b">>), Ln(<<"b">>)>>,
                      blocks |-> {[s |-> 1, e |-> 2], [s |-> 2, e |-> 2]},
                      readable |-> TRUE, utf8 |-> TRUE]
         [] f = 4 -> [name |-> <<"a">>,
                      lines |-> <<>>,
                      blocks |-> {},
                      readable |-> TRUE, utf8 |-> TRUE]]

(* The root that options.path names: the files get_file_list returns for   *)
(* it, the files whose read fails (noRead), the files whose block           *)
(* extraction fails (noProcess), and whether the root can be listed at all. *)
Root(files, noRead, noProcess, listable) ==
    [files |-> files, noRead |-> noRead, noProcess |-> noProcess, listable |-> listable]

GoodRoot == Root(Files, {}, {}, TRUE)

(* The file as the reader of the root finds it. *)
FileAt(root, f) == [Tree[f] EXCEPT !.readable = f \notin root.noRead]

----------------------------------------------------------------------------
(* Query plans.  The AST has nodes Term(index, excluded), And, Or.          *)

T(i) == [op |-> "term", idx |-> i, excluded |-> FALSE]

NotT(i) == [op |-> "term", idx |-> i, excluded |-> TRUE]

And(l, r) == [op |-> "and", l |-> l, r |-> r]

Or(l, r) == [op |-> "or", l |-> l, r |-> r]

(* ast.evaluate(matched_terms, term_indices, honor_exclusions): a term node *)
(* holds when its index is matched; an excluded term node is false when its *)
(* index is matched and exclusions are honoured, and true otherwise.        *)
RECURSIVE Evaluate(_, _, _)
Evaluate(ast, matched, honor) ==
    CASE ast.op = "term" ->
           IF ast.excluded THEN (IF honor THEN ast.idx \notin matched ELSE TRUE)
           ELSE ast.idx \in matched
      [] ast.op = "and" -> Evaluate(ast.l, matched, honor) /\ Evaluate(ast.r, matched, honor)
      [] ast.op = "or" -> Evaluate(ast.l, matched, honor) \/ Evaluate(ast.r, matched, honor)

(* The grammar: or_expr := and_expr ('OR' and_expr)*, and_expr := unary     *)
(* (unary)*, unary := 'NOT'? atom.  Writing " NOT t" after a query extends  *)
(* the last and_expr of the query.                                          *)
RECURSIVE AppendNot(_, _)
AppendNot(ast, i) ==
    IF ast.op = "or" THEN Or(ast.l, AppendNot(ast.r, i)) ELSE And(ast, NotT(i))

(* create_query_plan on the query texts of the model.  `terms` lists the    *)
(* terms in index order (index i is terms[i + 1]); `base` and `notIdx` say  *)
(* that the text is the text of query `base` followed by " NOT terms[notIdx]"; *)
(* ok = FALSE is a parse error.                                              *)
Plans ==
    <<
      \* 1: a
      [ok |-> TRUE, terms |-> <<<<"a">>>>, ast |-> T(0), notIdx |-> -1],
      \* 2: c
      [ok |-> TRUE, terms |-> <<<<"c">>>>, ast |-> T(0), notIdx |-> -1],
      \* 3: a b
      [ok |-> TRUE, terms |-> <<<<"a">>, <<"b">>>>, ast |-> And(T(0), T(1)), notIdx |-> -1],
      \* 4: c OR y
      [ok |-> TRUE, terms |-> <<<<"c">>, <<"y">>>>, ast |-> Or(T(0), T(1)), notIdx |-> -1],
      \* 5: a NOT ab
      [ok |-> TRUE, terms |-> <<<<"a">>, <<"a", "b">>>>,
       ast |-> AppendNot(T(0), 1), notIdx |-> 1],
      \* 6: c NOT b
      [ok |-> TRUE, terms |-> <<<<"c">>, <<"b">>>>,
       ast |-> AppendNot(T(0), 1), notIdx |-> 1],
      \* 7: c OR y NOT b
      [ok |-> TRUE, terms |-> <<<<"c">>, <<"y">>, <<"b">>>>,
       ast |-> AppendNot(Or(T(0), T(1)), 2), notIdx |-> 2],
      \* 8: (a    -- unbalanced parenthesis, a parse error
      [ok |-> FALSE, terms |-> <<>>, ast |-> T(0), notIdx |-> -1],
      \* 9: a term so long that the combined pattern exceeds the size limit
      \*    of the regex engine
      [ok |-> TRUE, terms |-> <<<<"huge">>>>, ast |-> T(0), notIdx |-> -1]
    >>

(* regex::Regex::new on the combined pattern: the terms are escaped         *)
(* literals, so the only failure is the size limit of the compiled program. *)
Compiles(patterns) == \A i \in 1..Len(patterns) : patterns[i].src.lit # <<"huge">>

(* create_structured_patterns: one entry per term, in term-index order, the *)
(* source being the term escaped as a literal.                               *)
StructuredPatterns(plan) ==
    [i \in 1..Len(plan.terms) |->
       [src |-> [lit |-> plan.terms[i], grp |-> FALSE], terms |-> {i - 1}]]

(* The queries whose combined pattern compiles. *)
Queries == {q \in 1..Len(Plans) : Compiles(StructuredPatterns(Plans[q]))}

----------------------------------------------------------------------------
(* A variant of the scan loop that inserts the term map of every file that  *)
(* was scanned, the empty ones included.                                    *)
SearchWithStructuredPatternsKeepingEmpty(root, patterns) ==
    LET scan(f) == SearchFile(FileAt(root, f), patterns)
        hits == {f \in root.files : scan(f).ok}
    IN  [f \in hits |-> scan(f).map]

(* search_with_structured_patterns: the hit map, file -> (term index ->    *)
(* line numbers).  A file is inserted only when its scan succeeded and its  *)
(* term map is not empty.                                                   *)
SearchWithStructuredPatterns(root, patterns) ==
    LET scan(f) == SearchFile(FileAt(root, f), patterns)
        hits == {f \in root.files : scan(f).ok /\ DOMAIN scan(f).map # {}}
    IN  [f \in hits |-> scan(f).map]

(* find_matching_filenames: the files whose name contains a plan term, each *)
(* with the indices of the terms its name contains.                          *)
FindMatchingFilenames(root, plan) ==
    LET named(f) == {i \in 0..(Len(plan.terms) - 1) : Contains(plan.terms[i + 1], Tree[f].name)}
    IN  [f \in {g \in root.files : named(g) # {}} |-> named(f)]

(* A variant of the loop over filename_matches that does not read the file  *)
(* and so admits a file whose read fails.                                    *)
AddFilenameMatchesUnread(root, hitMap, matches) ==
    LET usable == {f \in DOMAIN matches : Len(Tree[f].lines) > 0}
        allLines(f) == 1..Len(Tree[f].lines)
        old(f) == IF f \in DOMAIN hitMap THEN hitMap[f] ELSE <<>>
        new(f) == [t \in DOMAIN old(f) \cup matches[f] |->
                     (IF t \in DOMAIN old(f) THEN old(f)[t] ELSE {})
                     \cup (IF t \in matches[f] THEN allLines(f) ELSE {})]
    IN  [f \in DOMAIN hitMap \cup usable |-> IF f \in usable THEN new(f) ELSE hitMap[f]]

(* A variant of the loop over filename_matches that starts every file from  *)
(* an empty term map instead of the entry of the content scan.              *)
AddFilenameMatchesReplacing(root, hitMap, matches) ==
    LET usable == {f \in DOMAIN matches : ReadToString(FileAt(root, f)) /\ Len(Tree[f].lines) > 0}
        allLines(f) == 1..Len(Tree[f].lines)
        new(f) == [t \in matches[f] |-> allLines(f)]
    IN  [f \in DOMAIN hitMap \cup usable |-> IF f \in usable THEN new(f) ELSE hitMap[f]]

(* The loop over filename_matches: a file that cannot be read or has no     *)
(* line is skipped; otherwise every line of the file is added for each      *)
(* filename-matched term, on top of what the content scan recorded.         *)
AddFilenameMatches(root, hitMap, matches) ==
    LET usable == {f \in DOMAIN matches : ReadToString(FileAt(root, f)) /\ Len(Tree[f].lines) > 0}
        allLines(f) == 1..Len(Tree[f].lines)
        old(f) == IF f \in DOMAIN hitMap THEN hitMap[f] ELSE <<>>
        new(f) == [t \in DOMAIN old(f) \cup matches[f] |->
                     (IF t \in DOMAIN old(f) THEN old(f)[t] ELSE {})
                     \cup (IF t \in matches[f] THEN allLines(f) ELSE {})]
    IN  [f \in DOMAIN hitMap \cup usable |-> IF f \in usable THEN new(f) ELSE hitMap[f]]

(* A variant of the early AST filter that calls evaluate with exclusions    *)
(* not honoured.                                                            *)
AstFilterIgnoringExclusions(plan, hitMap, allFiles) ==
    LET keep == {f \in allFiles : f \in DOMAIN hitMap /\ Evaluate(plan.ast, DOMAIN hitMap[f], FALSE)}
    IN  [map |-> [f \in keep |-> hitMap[f]], files |-> keep]

(* The early AST filter: keeps the files of all_files that have an entry in *)
(* the hit map and whose matched term set satisfies the AST with exclusions  *)
(* honoured.  Returns the new file_term_map and all_files.                   *)
AstFilter(plan, hitMap, allFiles) ==
    LET keep == {f \in allFiles : f \in DOMAIN hitMap /\ Evaluate(plan.ast, DOMAIN hitMap[f], TRUE)}
    IN  [map |-> [f \in keep |-> hitMap[f]], files |-> keep]

----------------------------------------------------------------------------
(* Blocks and results.  A result is [file, s, e, kind, uniq, total, rank,  *)
(* byFilename]: the inclusive line range, the node kind, block_unique_terms, *)
(* block_total_matches, the rank (0 when absent) and matched_by_filename.    *)
(* Its code is the text of lines s..e of the file ("" for kind "file").      *)

SeqRange(q) == {q[i] : i \in 1..Len(q)}

RECURSIVE SetToSeq(_)
SetToSeq(S) ==
    IF S = {} THEN <<>>
    ELSE LET x == CHOOSE y \in S : TRUE IN <<x>> \o SetToSeq(S \ {x})

RECURSIVE SumSeq(_)
SumSeq(q) == IF q = <<>> THEN 0 ELSE Head(q) + SumSeq(Tail(q))

RegionOf(b) == [file |-> b.file, s |-> b.s, e |-> b.e]

(* Two line ranges of the same file share a line. *)
Overlaps(x, y) == x.file = y.file /\ x.s <= y.e /\ y.s <= x.e

(* len(code) and countTokens(code) of a result. *)
CodeBytes(b) ==
    IF b.kind = "file" THEN 0
    ELSE SumSeq([n \in 1..(b.e - b.s + 1) |-> LineBytes(Tree[b.file].lines[b.s + n - 1])])
         + (b.e - b.s)

CodeTokens(b) ==
    IF b.kind = "file" THEN 0
    ELSE SumSeq([n \in 1..(b.e - b.s + 1) |-> Len(Tree[b.file].lines[b.s + n - 1].text)])

(* The smallest parsed block that contains the line, or the synthetic       *)
(* single-line block when no parsed block does.                             *)
EnclosingBlock(f, n) ==
    LET around == {b \in Tree[f].blocks : b.s <= n /\ n <= b.e}
    IN  IF around = {} THEN [s |-> n, e |-> n, kind |-> "line"]
        ELSE LET b == CHOOSE x \in around : \A y \in around : x.e - x.s <= y.e - y.s
             IN  [s |-> b.s, e |-> b.e, kind |-> "function"]

(* process_file_with_results: the candidate blocks of one file, or Err when *)
(* the file cannot be read.  A block that fails the AST on its own matched  *)
(* terms is dropped, unless the file was purely filename-matched and the    *)
(* block spans the whole file.                                              *)
ProcessFile(root, f, termMap, plan, filenameMatched) ==
    IF ~FileAt(root, f).readable \/ f \in root.noProcess THEN [ok |-> FALSE, blocks |-> {}]
    ELSE
    LET lines == UNION {termMap[t] : t \in DOMAIN termMap}
        found == {EnclosingBlock(f, n) : n \in lines}
        inside(b, t) == {n \in termMap[t] : b.s <= n /\ n <= b.e}
        terms(b) == {t \in DOMAIN termMap : inside(b, t) # {}}
        total(b) == SumOver([t \in DOMAIN termMap |-> Cardinality(inside(b, t))], DOMAIN termMap)
        whole(b) == b.s = 1 /\ b.e = Len(Tree[f].lines)
        keep == {b \in found : \/ Evaluate(plan.ast, terms(b), TRUE)
                               \/ (filenameMatched # {} /\ whole(b))}
    IN  [ok |-> TRUE,
         blocks |-> {[file |-> f, s |-> b.s, e |-> b.e, kind |-> b.kind,
                      uniq |-> Cardinality(terms(b)), total |-> total(b), rank |-> 0,
                      byFilename |-> filenameMatched # {}] : b \in keep}]

(* rank_search_results: a total order on the candidate blocks: better score *)
(* first, ties broken by file path, then by start line; ranks from 1.  The  *)
(* score is abstracted to (block_unique_terms, block_total_matches).        *)
RankBefore(x, y) ==
    \/ x.uniq > y.uniq
    \/ x.uniq = y.uniq /\ x.total > y.total
    \/ x.uniq = y.uniq /\ x.total = y.total /\ x.file < y.file
    \/ x.uniq = y.uniq /\ x.total = y.total /\ x.file = y.file /\ x.s < y.s
    \/ x.uniq = y.uniq /\ x.total = y.total /\ x.file = y.file /\ x.s = y.s /\ x.e < y.e

RankSearchResults(results) ==
    LET sorted == SortSeq(SetToSeq(SeqRange(results)), RankBefore)
    IN  [i \in 1..Len(sorted) |-> [sorted[i] EXCEPT !.rank = i]]

----------------------------------------------------------------------------
(* The session cache: per session id the set of regions [file, s, e]       *)
(* returned before.                                                         *)

Cached(ranges, f, n) == \E r \in ranges : r.file = f /\ r.s <= n /\ n <= r.e

(* filter_matched_lines_with_cache: removes the matched lines that lie in a *)
(* cached range, then the terms and files left empty; counts the removals.  *)
FilterMatchedLines(hitMap, ranges) ==
    LET left(f, t) == {n \in hitMap[f][t] : ~Cached(ranges, f, n)}
        terms(f) == {t \in DOMAIN hitMap[f] : left(f, t) # {}}
        files == {f \in DOMAIN hitMap : terms(f) # {}}
        gone(f) == SumOver([t \in DOMAIN hitMap[f] |->
                              Cardinality(hitMap[f][t]) - Cardinality(left(f, t))],
                           DOMAIN hitMap[f])
    IN  [map |-> [f \in files |-> [t \in terms(f) |-> left(f, t)]],
         skipped |-> SumOver([f \in DOMAIN hitMap |-> gone(f)], DOMAIN hitMap)]

(* filter_results_with_cache: drops the blocks that overlap a cached range. *)
FilterResults(results, ranges) ==
    LET fresh(b) == ~\E r \in ranges : Overlaps(RegionOf(b), r)
        kept == SelectSeq(results, fresh)
    IN  [results |-> kept, skipped |-> Len(results) - Len(kept)]

(* add_results_to_cache: inserts the range of every result. *)
AddResults(ranges, results) == ranges \cup {RegionOf(results[i]) : i \in 1..Len(results)}

----------------------------------------------------------------------------
(* The limiter and the merger. *)

(* Option::None of max_results, max_bytes, max_tokens, merge_threshold. *)
NoLimit == -1

DefaultMergeThreshold == 5

Within(limit, n) == limit = NoLimit \/ n <= limit

(* apply_limits: the longest prefix within every limit; the files of the   *)
(* results cut off; whether any limit was given.                            *)
ApplyLimits(results, maxResults, maxBytes, maxTokens) ==
    LET fits(k) == /\ Within(maxResults, k)
                   /\ Within(maxBytes, SumSeq([i \in 1..k |-> CodeBytes(results[i])]))
                   /\ Within(maxTokens, SumSeq([i \in 1..k |-> CodeTokens(results[i])]))
        n == SetMax({k \in 0..Len(results) : \A j \in 0..k : fits(j)})
    IN  [results |-> SubSeq(results, 1, n),
         skippedFiles |-> [i \in 1..(Len(results) - n) |-> results[n + i].file],
         limitsApplied |-> ~(maxResults = NoLimit /\ maxBytes = NoLimit /\ maxTokens = NoLimit)]

(* The blocks of `group` reachable from b by steps between blocks of the   *)
(* same file whose gap, nextStart - prevEnd - 1, is within the threshold.  *)
Near(x, y, thr) ==
    /\ x.file = y.file
    /\ (IF x.s <= y.s THEN y.s - x.e - 1 ELSE x.s - y.e - 1) <= thr

RECURSIVE Cluster(_, _, _)
Cluster(seed, all, thr) ==
    LET more == {y \in all : \E x \in seed : Near(x, y, thr)} \cup seed
    IN  IF more = seed THEN seed ELSE Cluster(more, all, thr)

(* merge_ranked_blocks: merges to a fixed point; a merged block spans the  *)
(* union range, takes the best rank and sums the term statistics.  The     *)
(* output is in rank order.                                                 *)
MergeRankedBlocks(results, threshold) ==
    LET thr == IF threshold = NoLimit THEN DefaultMergeThreshold ELSE threshold
        all == SeqRange(results)
        clusters == {Cluster({b}, all, thr) : b \in all}
        first(c) == CHOOSE b \in c : \A x \in c : b.rank <= x.rank
        merged(c) == [first(c) EXCEPT
                        !.s = SetMin({x.s : x \in c}),
                        !.e = SetMax({x.e : x \in c}),
                        !.uniq = SumOver([x \in c |-> x.uniq], c),
                        !.total = SumOver([x \in c |-> x.total], c)]
        byRank(x, y) == x.rank < y.rank
    IN  SortSeq(SetToSeq({merged(c) : c \in clusters}), byRank)

----------------------------------------------------------------------------
(* perform_probe.  An invocation is run by a process in steps that each    *)
(* hold at most one access to the session cache:                            *)
(*   Begin        session id, query plan, scan, filename matching, early   *)
(*                AST filter                                                *)
(*   FilesOnly    the results of files-only mode                            *)
(*   EarlyCache   the early filter of matched lines                         *)
(*   FinalCache   block extraction, ranking, the final filter, the limits   *)
(*   InsertLimited  the cache insert of the limited results, then the merge *)
(*   InsertMerged   the cache insert of the merged results                  *)

Procs == {1, 2}

NoSession == "none"

GenId(n) == "g" \o ToString(n)

NoInput == [query |-> 0]

Idle ==
    [pc |-> "idle", in |-> NoInput, sid |-> NoSession, gen |-> FALSE, ranges0 |-> {},
     hitMap |-> <<>>, files |-> {}, earlySkipped |-> 0, limited |-> <<>>,
     results |-> <<>>, skippedFiles |-> <<>>, limitsApplied |-> FALSE,
     cachedSkipped |-> 0, ret |-> "-", stderr |-> <<>>, handed |-> <<>>]

(* A variant of the match that takes PROBE_SESSION_ID whenever it is set,   *)
(* the empty value included.                                                *)
ResolveSessionEmptyEnv(session, env) ==
    IF session # "absent" /\ session # ""
    THEN [sid |-> session, generate |-> FALSE]
    ELSE IF env # "unset"
         THEN [sid |-> env, generate |-> FALSE]
         ELSE [sid |-> NoSession, generate |-> session = ""]

(* The (effective_session, session_was_generated) match: `session` is       *)
(* "absent" for None, `env` is "unset" when PROBE_SESSION_ID is not set.    *)
(* generate = TRUE stands for the call of cache::generate_session_id.       *)
ResolveSession(session, env) ==
    IF session # "absent"
    THEN IF session = ""
         THEN IF env # "unset" /\ env # ""
              THEN [sid |-> env, generate |-> FALSE]
              ELSE [sid |-> NoSession, generate |-> TRUE]
         ELSE [sid |-> session, generate |-> FALSE]
    ELSE IF env # "unset" /\ env # ""
         THEN [sid |-> env, generate |-> FALSE]
         ELSE [sid |-> NoSession, generate |-> FALSE]

(* The cached regions of a session; a session without a cache file has none. *)
RangesOf(c, sid) ==
    {[file |-> x.file, s |-> x.s, e |-> x.e] : x \in {y \in c.entries : y.sid = sid}}

(* The storage after add_results_to_cache. *)
CacheInsert(c, sid, results) ==
    [files |-> c.files \cup {sid},
     entries |-> c.entries \cup
                 {[sid |-> sid, file |-> r.file, s |-> r.s, e |-> r.e] :
                    r \in AddResults({}, results)}]

(* The orders in which a HashSet of files may be iterated. *)
Orders(S) ==
    {q \in [1..Cardinality(S) -> S] : \A i, j \in 1..Cardinality(S) : q[i] = q[j] => i = j}

(* A variant of the files-only result that carries a rank. *)
FileResultRanked(f) ==
    [file |-> f, s |-> 1, e |-> 1, kind |-> "file", uniq |-> 0, total |-> 0, rank |-> f,
     byFilename |-> FALSE]

(* Lines 492-516: the result of files-only mode: lines (1, 1), node type    *)
(* "file", empty code, every annotation None.                               *)
FileResult(f) ==
    [file |-> f, s |-> 1, e |-> 1, kind |-> "file", uniq |-> 0, total |-> 0, rank |-> 0,
     byFilename |-> FALSE]

(* A variant of the hit map that leaves the filename matching out whatever *)
(* the option says.                                                         *)
MatchedScanOnly(in) ==
    SearchWithStructuredPatterns(in.path, StructuredPatterns(Plans[in.query]))

(* The hit map after the scan and the filename matching (when              *)
(* include_filenames): file_term_map before the early AST filter.  Its keys *)
(* are all_files.                                                           *)
Matched(in) ==
    LET plan == Plans[in.query]
        scanned == SearchWithStructuredPatterns(in.path, StructuredPatterns(plan))
    IN  IF ~in.excludeFilenames
        THEN AddFilenameMatches(in.path, scanned, FindMatchingFilenames(in.path, plan))
        ELSE scanned

(* The hit map and the candidate files after the early AST filter. *)
Candidates(in) ==
    CHOOSE c \in {AstFilter(Plans[in.query], m, DOMAIN m) : m \in {Matched(in)}} : TRUE

(* The history kept for the properties: what the invocation that process p *)
(* finished before returned.                                                *)
Absorb(p) ==
    IF inv[p].pc = "done"
    THEN /\ returned' = returned \cup
                 {[sid |-> inv[p].sid, filesOnly |-> inv[p].in.filesOnly,
                   file |-> r.file, s |-> r.s, e |-> r.e] :
                    r \in SeqRange(inv[p].results)}
         /\ last' = inv[p]
    ELSE UNCHANGED <<returned, last>>

(* A variant of the parse-failure return that hands the parse error to the *)
(* caller.                                                                  *)
ParseFailedFatal(start) ==
    [start EXCEPT !.pc = "done", !.ret = "Err"]

(* Lines 246-254: the query does not parse; the invocation returns Ok with  *)
(* empty results, no skipped files, limits_applied None and                 *)
(* cached_blocks_skipped None.                                              *)
ParseFailed(start) ==
    [start EXCEPT !.pc = "done", !.ret = "Ok", !.results = <<>>, !.skippedFiles = <<>>,
                  !.limitsApplied = FALSE, !.cachedSkipped = 0]

(* A variant in which a failure of get_file_list is taken as an empty file  *)
(* list instead of an error.                                                *)
ScanFailsRegexOnly(in) ==
    ~Compiles(StructuredPatterns(Plans[in.query]))

(* Lines 289-295: `?` on search_with_structured_patterns, which fails when  *)
(* the combined regex does not compile (line 905) or get_file_list fails    *)
(* (lines 920-921).                                                         *)
ScanFails(in) ==
    \/ ~Compiles(StructuredPatterns(Plans[in.query]))
    \/ ~in.path.listable

(* Lines 110-458: session id, query plan, scan, filename matching, early   *)
(* AST filter.  genFails: generate_session_id returns an error.            *)
Begin(p, in, genFails) ==
    LET es == ResolveSession(in.session, in.envSession)
        made == es.generate /\ ~genFails
        sid == IF made THEN GenId(genCount + 1) ELSE es.sid
        plan == Plans[in.query]
        start == [Idle EXCEPT !.in = in, !.sid = sid, !.gen = made,
                              !.ranges0 = RangesOf(cache, sid),
                              !.stderr = IF es.generate /\ genFails
                                         THEN <<"Error generating session ID">> ELSE <<>>]
    IN  /\ inv[p].pc \in {"idle", "done"}
        /\ genFails => es.generate
        /\ runs' = runs + 1
        /\ Absorb(p)
        /\ genCount' = IF made THEN genCount + 1 ELSE genCount
        /\ cache' = IF made THEN [cache EXCEPT !.files = @ \cup {sid}] ELSE cache
        /\ UNCHANGED scanVars
        /\ IF ~plan.ok
           THEN inv' = [inv EXCEPT ![p] = ParseFailed(start)]
           ELSE IF ScanFails(in)
           THEN inv' = [inv EXCEPT ![p] = [start EXCEPT !.pc = "done", !.ret = "Err"]]
           ELSE \E cand \in {Candidates(in)} :
                  inv' = [inv EXCEPT ![p] =
                            [start EXCEPT !.pc = "filtered",
                                          !.hitMap = cand.map,
                                          !.files = cand.files]]

(* Lines 488-530: files-only mode returns one result per candidate file,   *)
(* in the iteration order of the hash set all_files, cut by the limits.    *)
FilesOnly(p) ==
    LET me == inv[p]
    IN  /\ me.pc = "filtered"
        /\ me.in.filesOnly
        /\ \E order \in Orders(me.files) :
           \E list \in {[i \in 1..Len(order) |-> FileResult(order[i])]} :
           \E lim \in {ApplyLimits(list, me.in.maxResults, me.in.maxBytes,
                                   me.in.maxTokens)} :
             inv' = [inv EXCEPT ![p] =
                       [me EXCEPT !.pc = "done", !.ret = "Ok",
                                  !.handed = list,
                                  !.limited = lim.results,
                                  !.results = lim.results,
                                  !.skippedFiles = lim.skippedFiles,
                                  !.limitsApplied = lim.limitsApplied]]
        /\ UNCHANGED <<cache, genCount, returned, last, runs, scanVars>>

(* A variant of the early cache filter that leaves the candidate files as  *)
(* they were, without the intersection with the keys of the hit map.       *)
EarlyCacheKeepingFiles(p) ==
    LET me == inv[p]
    IN  /\ me.pc = "filtered"
        /\ ~me.in.filesOnly
        /\ \E out \in {FilterMatchedLines(me.hitMap, RangesOf(cache, me.sid))} :
           inv' = [inv EXCEPT ![p] =
                     IF me.sid = NoSession THEN [me EXCEPT !.pc = "final"]
                     ELSE [me EXCEPT !.pc = "final",
                                     !.hitMap = out.map,
                                     !.earlySkipped = out.skipped]]
        /\ UNCHANGED <<cache, genCount, returned, last, runs, scanVars>>

(* Lines 532-566: the early cache filter succeeds, or there is no session. *)
EarlyCache(p) ==
    LET me == inv[p]
    IN  /\ me.pc = "filtered"
        /\ ~me.in.filesOnly
        /\ \E out \in {FilterMatchedLines(me.hitMap, RangesOf(cache, me.sid))} :
           inv' = [inv EXCEPT ![p] =
                     IF me.sid = NoSession THEN [me EXCEPT !.pc = "final"]
                     ELSE [me EXCEPT !.pc = "final",
                                     !.hitMap = out.map,
                                     !.earlySkipped = out.skipped,
                                     !.files = me.files \cap DOMAIN out.map]]
        /\ UNCHANGED <<cache, genCount, returned, last, runs, scanVars>>

(* A variant of the error arm that propagates the error of                 *)
(* filter_matched_lines_with_cache to the caller, as `?` would.            *)
EarlyCacheErrPropagated(p) ==
    LET me == inv[p]
    IN  /\ me.pc = "filtered"
        /\ ~me.in.filesOnly
        /\ me.sid # NoSession
        /\ inv' = [inv EXCEPT ![p] =
                     [me EXCEPT !.pc = "done", !.ret = "Err",
                                !.stderr = Append(@, "Error applying early cache")]]
        /\ UNCHANGED <<cache, genCount, returned, last, runs, scanVars>>

(* Lines 552-561: filter_matched_lines_with_cache returns an error. *)
EarlyCacheErr(p) ==
    LET me == inv[p]
    IN  /\ me.pc = "filtered"
        /\ ~me.in.filesOnly
        /\ me.sid # NoSession
        /\ inv' = [inv EXCEPT ![p] =
                     [me EXCEPT !.pc = "final",
                                !.files = me.files \cap DOMAIN me.hitMap,
                                !.stderr = Append(@, "Error applying early cache")]]
        /\ UNCHANGED <<cache, genCount, returned, last, runs, scanVars>>

(* A variant of the extraction that extracts nothing in a dry run. *)
ExtractedUnlessDryRun(me) ==
    IF me.in.dryRun THEN <<>>
    ELSE LET plan == Plans[me.in.query]
             per(f) == ProcessFile(me.in.path, f, me.hitMap[f], plan, {})
             blocks == UNION {per(f).blocks : f \in {g \in me.files : g \in DOMAIN me.hitMap}}
         IN  CHOOSE r \in {RankSearchResults(q) : q \in {SetToSeq(blocks)}} : TRUE

(* Lines 587-678: block extraction for every candidate file that has an    *)
(* entry in the hit map, then ranking.                                      *)
Extracted(me) ==
    LET plan == Plans[me.in.query]
        per(f) == ProcessFile(me.in.path, f, me.hitMap[f], plan, {})
        blocks == UNION {per(f).blocks : f \in {g \in me.files : g \in DOMAIN me.hitMap}}
    IN  CHOOSE r \in {RankSearchResults(q) : q \in {SetToSeq(blocks)}} : TRUE

(* Lines 757-762: the limits, and cached_blocks_skipped (0 stands for None). *)
Limited(me, filtered, skippedCount) ==
    LET lim == CHOOSE x \in {ApplyLimits(filtered, me.in.maxResults, me.in.maxBytes,
                                          me.in.maxTokens)} : TRUE
    IN  [me EXCEPT !.pc = "ins1",
                   !.handed = filtered,
                   !.limited = lim.results,
                   !.results = lim.results,
                   !.skippedFiles = lim.skippedFiles,
                   !.limitsApplied = lim.limitsApplied,
                   !.cachedSkipped = IF skippedCount > 0 THEN skippedCount ELSE 0]

(* Lines 578-773: the final cache filter succeeds, or there is no session. *)
FinalCache(p) ==
    LET me == inv[p]
    IN  /\ me.pc = "final"
        /\ \E ranked \in {Extracted(me)} :
           \E out \in {FilterResults(ranked, RangesOf(cache, me.sid))} :
             inv' = [inv EXCEPT ![p] =
                       IF me.sid = NoSession THEN Limited(me, ranked, me.earlySkipped)
                       ELSE Limited(me, out.results, me.earlySkipped + out.skipped)]
        /\ UNCHANGED <<cache, genCount, returned, last, runs, scanVars>>

(* Lines 734-737: filter_results_with_cache returns an error. *)
FinalCacheErr(p) ==
    LET me == inv[p]
        failed == [me EXCEPT !.stderr = Append(@, "Error applying cache")]
    IN  /\ me.pc = "final"
        /\ me.sid # NoSession
        /\ \E ranked \in {Extracted(me)} :
             inv' = [inv EXCEPT ![p] = Limited(failed, ranked, me.earlySkipped)]
        /\ UNCHANGED <<cache, genCount, returned, last, runs, scanVars>>

(* A variant of the merge step that does not look at no_merge. *)
MergedAlways(me) ==
    IF me.limited # <<>>
    THEN [me EXCEPT !.pc = IF me.sid # NoSession THEN "ins2" ELSE "done",
                    !.results = MergeRankedBlocks(me.limited, me.in.mergeThreshold),
                    !.ret = IF me.sid # NoSession THEN "-" ELSE "Ok"]
    ELSE [me EXCEPT !.pc = "done", !.ret = "Ok"]

(* Lines 796-847: the merge is done when there are results and no_merge is *)
(* off; the merged results are inserted into the cache when there is a     *)
(* session.                                                                 *)
Merged(me) ==
    IF me.limited # <<>> /\ ~me.in.noMerge
    THEN [me EXCEPT !.pc = IF me.sid # NoSession THEN "ins2" ELSE "done",
                    !.results = MergeRankedBlocks(me.limited, me.in.mergeThreshold),
                    !.ret = IF me.sid # NoSession THEN "-" ELSE "Ok"]
    ELSE [me EXCEPT !.pc = "done", !.ret = "Ok"]

(* A variant of the step that leaves out the insert of the limited results. *)
InsertLimitedLeftOut(p) ==
    LET me == inv[p]
    IN  /\ me.pc = "ins1"
        /\ inv' = [inv EXCEPT ![p] = Merged(me)]
        /\ UNCHANGED <<cache, genCount, returned, last, runs, scanVars>>

(* A variant of the insert that writes back the regions the invocation saw *)
(* at its start plus its own, without taking the lock of the session: the   *)
(* inserts that other invocations made in between are lost.                 *)
InsertLimitedUnlocked(p) ==
    LET me == inv[p]
        stale == [files |-> cache.files,
                  entries |-> {x \in cache.entries : x.sid # me.sid}
                              \cup {[sid |-> me.sid, file |-> r.file, s |-> r.s, e |-> r.e] :
                                       r \in me.ranges0}]
    IN  /\ me.pc = "ins1"
        /\ cache' = IF me.sid = NoSession THEN cache
                    ELSE CacheInsert(stale, me.sid, me.limited)
        /\ inv' = [inv EXCEPT ![p] = Merged(me)]
        /\ UNCHANGED <<genCount, returned, last, runs, scanVars>>

(* A variant of the insert that stores every block handed to the limiter,  *)
(* the ones cut off included.                                              *)
InsertLimitedWithCutOff(p) ==
    LET me == inv[p]
    IN  /\ me.pc = "ins1"
        /\ cache' = IF me.sid = NoSession THEN cache
                    ELSE CacheInsert(cache, me.sid, me.handed)
        /\ inv' = [inv EXCEPT ![p] = Merged(me)]
        /\ UNCHANGED <<genCount, returned, last, runs, scanVars>>

(* Lines 775-817: the limited results are inserted, or there is no session. *)
InsertLimited(p) ==
    LET me == inv[p]
    IN  /\ me.pc = "ins1"
        /\ cache' = IF me.sid = NoSession THEN cache
                    ELSE CacheInsert(cache, me.sid, me.limited)
        /\ inv' = [inv EXCEPT ![p] = Merged(me)]
        /\ UNCHANGED <<genCount, returned, last, runs, scanVars>>

(* Lines 777-779: add_results_to_cache returns an error. *)
InsertLimitedErr(p) ==
    LET me == inv[p]
    IN  /\ me.pc = "ins1"
        /\ me.sid # NoSession
        /\ inv' = [inv EXCEPT ![p] =
                     Merged([me EXCEPT !.stderr = Append(@, "Error adding results to cache")])]
        /\ UNCHANGED <<cache, genCount, returned, last, runs, scanVars>>

(* A variant of the step that leaves out the insert of the merged results. *)
InsertMergedLeftOut(p) ==
    LET me == inv[p]
    IN  /\ me.pc = "ins2"
        /\ inv' = [inv EXCEPT ![p] = [me EXCEPT !.pc = "done", !.ret = "Ok"]]
        /\ UNCHANGED <<cache, genCount, returned, last, runs, scanVars>>

(* Lines 819-834: the merged results are inserted. *)
InsertMerged(p) ==
    LET me == inv[p]
    IN  /\ me.pc = "ins2"
        /\ cache' = CacheInsert(cache, me.sid, me.results)
        /\ inv' = [inv EXCEPT ![p] = [me EXCEPT !.pc = "done", !.ret = "Ok"]]
        /\ UNCHANGED <<genCount, returned, last, runs, scanVars>>

(* Lines 821-823: add_results_to_cache returns an error on the merged results. *)
InsertMergedErr(p) ==
    LET me == inv[p]
    IN  /\ me.pc = "ins2"
        /\ inv' = [inv EXCEPT ![p] =
                     [me EXCEPT !.pc = "done", !.ret = "Ok",
                                !.stderr = Append(@, "Error adding merged results to cache")]]
        /\ UNCHANGED <<cache, genCount, returned, last, runs, scanVars>>

----------------------------------------------------------------------------
(* The invocations that are run.  A behaviour holds MaxWarm invocations    *)
(* with the default options that fill the cache of session "S", then one   *)
(* invocation with any input (session "S", a fresh session "T", a          *)
(* generated session or none), then one that repeats it, with the same     *)
(* input or with tighter limits.                                           *)

MaxWarm == 1

MaxLimit == 2

LimitChoices ==
    {[maxResults |-> r, maxBytes |-> NoLimit, maxTokens |-> NoLimit] :
        r \in {NoLimit} \cup 1..MaxLimit}
    \cup {[maxResults |-> NoLimit, maxBytes |-> MaxLimit + 1, maxTokens |-> NoLimit],
          [maxResults |-> NoLimit, maxBytes |-> NoLimit, maxTokens |-> MaxLimit]}

MergeChoices ==
    {[noMerge |-> TRUE, mergeThreshold |-> NoLimit],
     [noMerge |-> TRUE, mergeThreshold |-> 0],
     [noMerge |-> FALSE, mergeThreshold |-> NoLimit],
     [noMerge |-> FALSE, mergeThreshold |-> 0]}

SessionChoices ==
    {[session |-> "absent", envSession |-> "unset"],
     [session |-> "absent", envSession |-> "S"],
     [session |-> "absent", envSession |-> ""],
     [session |-> "", envSession |-> "unset"],
     [session |-> "", envSession |-> "S"],
     [session |-> "S", envSession |-> "unset"],
     [session |-> "T", envSession |-> "unset"]}

MakeInput(q, fo, xf, m, l, se) ==
    [path |-> GoodRoot, query |-> q, filesOnly |-> fo, excludeFilenames |-> xf,
     noMerge |-> m.noMerge, mergeThreshold |-> m.mergeThreshold,
     maxResults |-> l.maxResults, maxBytes |-> l.maxBytes, maxTokens |-> l.maxTokens,
     session |-> se.session, envSession |-> se.envSession, dryRun |-> FALSE]

Inputs ==
    {MakeInput(q, fo, xf, m, l, se) :
        q \in Queries, fo \in BOOLEAN, xf \in BOOLEAN,
        m \in MergeChoices, l \in LimitChoices, se \in SessionChoices}

WarmInputs ==
    {in \in Inputs : /\ in.query \in {1, 2}
                     /\ ~in.filesOnly /\ ~in.excludeFilenames
                     /\ ~in.noMerge /\ in.mergeThreshold = NoLimit
                     /\ in.maxResults = NoLimit /\ in.maxBytes = NoLimit
                     /\ in.maxTokens = NoLimit
                     /\ in.session = "S" /\ in.envSession = "unset"}

AtMost(x, y) == y = NoLimit \/ (x # NoLimit /\ x <= y)

(* `in` is `base` with some limit tightened and nothing else changed. *)
Tighter(in, base) ==
    /\ in # base
    /\ in = [base EXCEPT !.maxResults = in.maxResults, !.maxBytes = in.maxBytes,
                         !.maxTokens = in.maxTokens]
    /\ AtMost(in.maxResults, base.maxResults)
    /\ AtMost(in.maxBytes, base.maxBytes)
    /\ AtMost(in.maxTokens, base.maxTokens)

Init ==
    /\ cache = [files |-> {}, entries |-> {}]
    /\ genCount = 0
    /\ inv = [p \in Procs |-> Idle]
    /\ returned = {}
    /\ last = Idle
    /\ runs = 0
    /\ scanPc = "idle" /\ scanIn = <<>> /\ scanOut = NoScan

StartWarm(p) ==
    /\ runs < MaxWarm
    /\ \E in \in WarmInputs : Begin(p, in, FALSE)

StartFree(p) ==
    /\ runs = MaxWarm
    /\ \E in \in Inputs : Begin(p, in, FALSE)

StartRepeat(p) ==
    /\ runs = MaxWarm + 1
    /\ inv[p].pc = "done"
    /\ Begin(p, inv[p].in, FALSE)

StartTighter(p) ==
    /\ runs = MaxWarm + 1
    /\ inv[p].pc = "done"
    /\ inv[p].sid = NoSession /\ inv[p].in.session = "absent"
    /\ \E in \in Inputs : Tighter(in, inv[p].in) /\ Begin(p, in, FALSE)

(* The invocations run one after the other, all by process 1. *)
Next ==
    \/ StartWarm(1)
    \/ StartFree(1)
    \/ StartRepeat(1)
    \/ StartTighter(1)
    \/ FilesOnly(1)
    \/ EarlyCache(1)
    \/ FinalCache(1)
    \/ InsertLimited(1)
    \/ InsertMerged(1)

Spec == Init /\ [][Next]_vars

----------------------------------------------------------------------------
(* The invocations with failing cache operations: after a warm-up in which *)
(* every cache operation succeeds, one invocation with any input in which  *)
(* each cache operation may fail.                                          *)

StartFailing(p) ==
    /\ runs = MaxWarm
    /\ \E in \in Inputs : \E genFails \in BOOLEAN : Begin(p, in, genFails)

FailEarlyCache(p) == runs > MaxWarm /\ EarlyCacheErr(p)

FailFinalCache(p) == runs > MaxWarm /\ FinalCacheErr(p)

FailInsertLimited(p) == runs > MaxWarm /\ InsertLimitedErr(p)

FailInsertMerged(p) == runs > MaxWarm /\ InsertMergedErr(p)

FailNext ==
    \/ StartWarm(1)
    \/ StartFailing(1)
    \/ FilesOnly(1)
    \/ EarlyCache(1)
    \/ FailEarlyCache(1)
    \/ FinalCache(1)
    \/ FailFinalCache(1)
    \/ InsertLimited(1)
    \/ FailInsertLimited(1)
    \/ InsertMerged(1)
    \/ FailInsertMerged(1)

FailSpec == Init /\ [][FailNext]_vars

----------------------------------------------------------------------------
(* The invocations on damaged trees: one invocation, with any query of the *)
(* model (the one that does not parse and the one whose pattern does not   *)
(* compile included), on a root that may not be listable, may hold the     *)
(* empty file, and may hold one file that cannot be read and one file      *)
(* whose block extraction fails.                                           *)

BadChoices == {{}} \cup {{f} : f \in Files}

TreeRoots ==
    {Root(fs, nr, np, l) :
        fs \in {Files, Files \cup {EmptyFile}}, nr \in BadChoices, np \in BadChoices,
        l \in BOOLEAN}

TreeLimits == {l \in LimitChoices : l.maxBytes = NoLimit /\ l.maxTokens = NoLimit}

TreeMerges == {m \in MergeChoices : m.mergeThreshold = NoLimit}

TreeSessions == {se \in SessionChoices : se.envSession = "unset" /\ se.session \in {"absent", "T"}}

TreeInputs ==
    {[MakeInput(q, fo, xf, m, l, se) EXCEPT !.path = root] :
        q \in 1..Len(Plans), fo \in BOOLEAN, xf \in BOOLEAN,
        m \in TreeMerges, l \in TreeLimits, se \in TreeSessions, root \in TreeRoots}

StartTree(p) ==
    /\ runs = 0
    /\ \E in \in TreeInputs : Begin(p, in, FALSE)

TreeNext ==
    \/ StartTree(1)
    \/ FilesOnly(1)
    \/ EarlyCache(1)
    \/ FinalCache(1)
    \/ InsertLimited(1)
    \/ InsertMerged(1)

TreeSpec == Init /\ [][TreeNext]_vars

----------------------------------------------------------------------------
(* The invocations with and without dry_run: after the warm-up, one        *)
(* invocation with any input, with dry_run set or not.                     *)

StartDry(p) ==
    /\ runs = MaxWarm
    /\ \E in \in Inputs : \E d \in BOOLEAN : Begin(p, [in EXCEPT !.dryRun = d], FALSE)

DryNext ==
    \/ StartWarm(1)
    \/ StartDry(1)
    \/ FilesOnly(1)
    \/ EarlyCache(1)
    \/ FinalCache(1)
    \/ InsertLimited(1)
    \/ InsertMerged(1)

DrySpec == Init /\ [][DryNext]_vars

----------------------------------------------------------------------------
(* Concurrent invocations: each process runs one invocation on session "S", *)
(* and the steps of the two invocations interleave in every order.  A call  *)
(* of the cache module is one step: the module holds the lock of the        *)
(* session file for the length of the call.                                 *)

ConcInputs ==
    {in \in Inputs : /\ in.session = "S" /\ in.envSession = "unset"
                     /\ in.query \in {1, 2, 4}
                     /\ ~in.filesOnly /\ ~in.excludeFilenames
                     /\ in.mergeThreshold = NoLimit
                     /\ in.maxBytes = NoLimit /\ in.maxTokens = NoLimit
                     /\ in.maxResults \in {NoLimit, 1}}

StartConc(p) ==
    /\ inv[p].pc = "idle"
    /\ \E in \in ConcInputs : Begin(p, in, FALSE)

ConcNext ==
    \/ \E p \in Procs : StartConc(p)
    \/ \E p \in Procs : EarlyCache(p)
    \/ \E p \in Procs : FinalCache(p)
    \/ \E p \in Procs : InsertLimited(p)
    \/ \E p \in Procs : InsertMerged(p)

ConcSpec == Init /\ [][ConcNext]_vars

----------------------------------------------------------------------------
(* Invocations under limits of every size: one invocation on the empty     *)
(* cache, with one of the three limits set to any value up to the size of  *)
(* everything the query can return.                                        *)

WideLimits ==
    {[maxResults |-> r, maxBytes |-> NoLimit, maxTokens |-> NoLimit] :
        r \in {NoLimit} \cup 1..MaxLimit}
    \cup {[maxResults |-> NoLimit, maxBytes |-> b, maxTokens |-> NoLimit] :
            b \in 1..(6 * MaxLimit)}
    \cup {[maxResults |-> NoLimit, maxBytes |-> NoLimit, maxTokens |-> t] :
            t \in 1..(4 * MaxLimit)}

LimitInputs ==
    {MakeInput(q, fo, xf, m, l, se) :
        q \in Queries, fo \in BOOLEAN, xf \in BOOLEAN,
        m \in MergeChoices, l \in WideLimits,
        se \in {se \in SessionChoices : se.envSession = "unset"
                                        /\ se.session \in {"absent", "S"}}}

StartLimit(p) ==
    /\ runs = 0
    /\ \E in \in LimitInputs : Begin(p, in, FALSE)

LimitNext ==
    \/ StartLimit(1)
    \/ FilesOnly(1)
    \/ EarlyCache(1)
    \/ FinalCache(1)
    \/ InsertLimited(1)
    \/ InsertMerged(1)

LimitSpec == Init /\ [][LimitNext]_vars

----------------------------------------------------------------------------
(* Scanner harness: the scanner applied to bounded pattern sets and files. *)

ScanLits == {<<"a">>, <<"b">>, <<"a", "b">>}

ScanEntries == [src : [lit : ScanLits, grp : BOOLEAN], terms : {{0}, {1}}]

ScanPatternSets == UNION {[1..n -> ScanEntries] : n \in 1..MaxPatterns}

ScanLineSet ==
    [text : {<<"a">>, <<"A", "b">>, <<"b">>, <<"c", "a">>}, pad : {0}]
    \cup [text : {<<"a">>}, pad : {MaxLineBytes - 1, MaxLineBytes}]

ScanFiles ==
    {f \in UNION {[lines : [1..n -> ScanLineSet], readable : BOOLEAN, utf8 : BOOLEAN] :
                      n \in 1..MaxScanLines} : f.readable \/ f.utf8}

ScanInit ==
    /\ cache = [files |-> {}, entries |-> {}]
    /\ genCount = 0
    /\ inv = [p \in Procs |-> Idle]
    /\ returned = {}
    /\ last = Idle
    /\ runs = 0
    /\ scanPc = "ready"
    /\ scanIn \in [patterns : ScanPatternSets, file : ScanFiles]
    /\ scanOut = NoScan

ScanFile ==
    /\ scanPc = "ready"
    /\ scanOut' = SearchFile(scanIn.file, scanIn.patterns)
    /\ scanPc' = "done"
    /\ UNCHANGED <<scanIn, cache, genCount, inv, returned, last, runs>>

ScanNext == ScanFile

ScanSpec == ScanInit /\ [][ScanNext]_vars

----------------------------------------------------------------------------
(* Properties of perform_probe, checked under Spec.  `me` is the invocation *)
(* of process 1, `last` the invocation that finished before it.             *)

Done(x) == x.pc = "done"

(* The invocation just finished repeats the previous one: same inputs, and *)
(* the same effective session id.                                          *)
Repeats ==
    /\ Done(inv[1]) /\ Done(last)
    /\ inv[1].in = last.in
    /\ inv[1].sid = last.sid

Regions(results) == {RegionOf(results[i]) : i \in 1..Len(results)}

(* C1: across the invocations of one session on the unchanged tree, no     *)
(* invocation returns a result whose line range overlaps a region that an  *)
(* earlier invocation of the session returned.  Stated for invocations     *)
(* outside files-only mode, whose results carry block line ranges.         *)
C1_NoOverlapWithEarlier ==
    (Done(inv[1]) /\ inv[1].sid # NoSession /\ ~inv[1].in.filesOnly) =>
        \A r \in Regions(inv[1].results) : \A x \in returned :
            (x.sid = inv[1].sid /\ ~x.filesOnly) =>
                ~Overlaps(r, [file |-> x.file, s |-> x.s, e |-> x.e])

C3_SkippedCountsBlocks ==
    ( /\ Repeats /\ inv[1].sid # NoSession
      /\ ~inv[1].in.filesOnly /\ inv[1].in.noMerge
      /\ inv[1].in.maxResults = NoLimit /\ inv[1].in.maxBytes = NoLimit
      /\ inv[1].in.maxTokens = NoLimit
      /\ last.cachedSkipped = 0
      /\ last.results # <<>> )
    => inv[1].cachedSkipped = Len(last.results)

(* C4: two invocations with the same inputs and no effective session       *)
(* return the same results in the same order and the same skipped files,   *)
(* for every option setting.                                               *)
C4_Deterministic ==
    (Repeats /\ inv[1].sid = NoSession) =>
        /\ inv[1].results = last.results
        /\ inv[1].skippedFiles = last.skippedFiles

(* C5: without a session, tightening a limit never makes the returned list *)
(* contain a result (file, line range) that the list returned at the       *)
(* looser limit did not contain.  Stated outside files-only mode, where    *)
(* the order of the results does not depend on a hash set.                 *)
C5_TighterLimitAddsNothing ==
    ( /\ Done(inv[1]) /\ Done(last)
      /\ inv[1].sid = NoSession /\ last.sid = NoSession
      /\ Tighter(inv[1].in, last.in)
      /\ ~inv[1].in.filesOnly )
    => Regions(inv[1].results) \subseteq Regions(last.results)

(* C6: after the early AST filter the keys of the hit map are the          *)
(* candidate files, every one of them satisfies the AST on its matched     *)
(* terms with exclusions honoured, and every file of the hit map before    *)
(* the filter that fails the AST is in neither.                            *)
C6_AstFilterKeepsSatisfying ==
    inv[1].pc = "filtered" =>
        LET ast == Plans[inv[1].in.query].ast
            before == Matched(inv[1].in)
        IN  /\ DOMAIN inv[1].hitMap = inv[1].files
            /\ \A f \in inv[1].files : Evaluate(ast, DOMAIN inv[1].hitMap[f], TRUE)
            /\ \A f \in DOMAIN before :
                   ~Evaluate(ast, DOMAIN before[f], TRUE) =>
                       f \notin DOMAIN inv[1].hitMap /\ f \notin inv[1].files

(* A file admitted by its name only fails the AST and is dropped, while    *)
(* other files are kept.                                                   *)
C6_Witness ==
    /\ inv[1].pc = "filtered"
    /\ inv[1].files # {}
    /\ \E f \in DOMAIN Matched(inv[1].in) :
          /\ f \notin inv[1].files
          /\ f \in DOMAIN FindMatchingFilenames(inv[1].in.path, Plans[inv[1].in.query])
          /\ ~inv[1].in.excludeFilenames

(* The text of the line contains the term. *)
OccursIn(term, f) == \E n \in 1..Len(Tree[f].lines) : Contains(term, Tree[f].lines[n].text)

(* C7: when the excluded term of a query "Q NOT term" occurs in every file *)
(* of the tree, the invocation returns no result, in normal mode and in    *)
(* files-only mode.                                                        *)
C7_ExcludedEverywhereGivesNothing ==
    LET plan == Plans[inv[1].in.query]
    IN  ( /\ Done(inv[1])
          /\ plan.notIdx >= 0
          /\ \A f \in Files : OccursIn(plan.terms[plan.notIdx + 1], f) )
        => inv[1].results = <<>>

----------------------------------------------------------------------------
(* Properties of the session of an invocation, checked under Spec.         *)

(* C15: when options.session is absent, the effective session is           *)
(* PROBE_SESSION_ID if that is set and not empty, and none otherwise; an   *)
(* invocation without an effective session generates no id, filters        *)
(* neither the hit map nor the ranked results against a cache, inserts     *)
(* nothing, and reports no cached_blocks_skipped.                          *)
C15_AbsentSession ==
    [][ (inv'[1].pc # "idle" /\ inv'[1].in.session = "absent") =>
          LET env == inv'[1].in.envSession
          IN  /\ inv'[1].sid = IF env # "unset" /\ env # "" THEN env ELSE NoSession
              /\ ~inv'[1].gen
              /\ inv'[1].sid = NoSession =>
                    /\ cache' = cache
                    /\ genCount' = genCount
                    /\ inv'[1].cachedSkipped = 0 /\ inv'[1].earlySkipped = 0
                    /\ (inv[1].pc = "filtered" /\ inv'[1].pc = "final")
                          => inv'[1].hitMap = inv[1].hitMap
                    /\ (inv[1].pc = "final" /\ inv'[1].pc = "ins1")
                          => inv'[1].handed = Extracted(inv[1]) ]_vars

(* An invocation with no session option and an empty PROBE_SESSION_ID has  *)
(* returned a region that the cache of another session holds.              *)
C15_Witness ==
    /\ Done(inv[1])
    /\ inv[1].in.session = "absent"
    /\ inv[1].in.envSession = ""
    /\ inv[1].sid = NoSession
    /\ \E r \in Regions(inv[1].results) : r \in RangesOf(cache, "S")

(* C16: when options.session is the empty string, the invocation calls     *)
(* generate_session_id, its effective session is the generated id, and the *)
(* id is reported as generated.                                            *)
C16_EmptySessionGenerates ==
    (inv[1].pc # "idle" /\ inv[1].in.session = "") =>
        /\ inv[1].gen
        /\ inv[1].sid = GenId(genCount)

(* C33: an invocation whose query does not parse leaves the storage of    *)
(* the session cache as it was, whatever the session option and            *)
(* PROBE_SESSION_ID are: the step that ends in the parse-failure return     *)
(* creates no cache file and changes no entry.                             *)
C33_ParseFailureLeavesCache ==
    [][ (inv'[1] # inv[1] /\ inv'[1].pc = "done" /\ ~Plans[inv'[1].in.query].ok)
           => cache' = cache ]_vars

----------------------------------------------------------------------------
(* Properties of the results: C18 and C20 are checked under Spec, C19     *)
(* under TreeSpec.                                                         *)

(* The file is in the hit map only because of its name: the scanner        *)
(* recorded no hit for it.                                                 *)
SelectedByNameOnly(in, f) ==
    /\ ~in.excludeFilenames
    /\ f \in DOMAIN Matched(in)
    /\ f \notin DOMAIN MatchedScanOnly(in)

(* C18: every result returned for a file that was selected purely by its   *)
(* name carries matched_by_filename = true, in normal mode and in          *)
(* files-only mode.                                                        *)
C18_FilenameOnlyFlagged ==
    (Done(inv[1]) /\ Plans[inv[1].in.query].ok) =>
        \A i \in 1..Len(inv[1].results) :
            SelectedByNameOnly(inv[1].in, inv[1].results[i].file)
                => inv[1].results[i].byFilename

(* The files of the hit map whose matched terms satisfy the query, with    *)
(* exclusions honoured.                                                    *)
Survivors(in) ==
    LET m == CHOOSE x \in {Matched(in)} : TRUE
    IN  {f \in DOMAIN m : Evaluate(Plans[in.query].ast, DOMAIN m[f], TRUE)}

(* C19: in files-only mode the list handed to apply_limits holds exactly   *)
(* one result for each file that survived the AST filter and no result for *)
(* any other file; each result has an empty code, node type "file" and no  *)
(* ranking annotation.                                                     *)
C19_FilesOnlyList ==
    (Done(inv[1]) /\ inv[1].in.filesOnly /\ inv[1].ret = "Ok"
       /\ Plans[inv[1].in.query].ok) =>
        LET list == inv[1].handed
        IN  /\ Survivors(inv[1].in) = {list[i].file : i \in 1..Len(list)}
            /\ \A i, j \in 1..Len(list) : list[i].file = list[j].file => i = j
            /\ \A i \in 1..Len(list) :
                  /\ list[i].kind = "file"
                  /\ CodeBytes(list[i]) = 0 /\ CodeTokens(list[i]) = 0
                  /\ list[i].rank = 0 /\ list[i].uniq = 0 /\ list[i].total = 0

(* A files-only invocation handed two files to the limiter, which cut one  *)
(* off, while a third file of the hit map had not survived the AST filter. *)
C19_Witness ==
    /\ Done(inv[1])
    /\ inv[1].in.filesOnly
    /\ Len(inv[1].handed) = 2
    /\ Len(inv[1].results) = 1
    /\ inv[1].ret = "Ok"
    /\ DOMAIN Matched(inv[1].in) # Survivors(inv[1].in)

(* C20: with no_merge set, whatever merge_threshold is, the results that   *)
(* perform_probe returns are the output of apply_limits on the list handed *)
(* to it (same blocks, same ranges, same order), and the invocation never  *)
(* reaches the insert of merged results.                                   *)
C20_NoMergeReturnsLimited ==
    (inv[1].pc # "idle" /\ inv[1].in.noMerge) =>
        /\ inv[1].pc # "ins2"
        /\ (Done(inv[1]) /\ Plans[inv[1].in.query].ok) =>
              inv[1].results = ApplyLimits(inv[1].handed, inv[1].in.maxResults,
                                           inv[1].in.maxBytes, inv[1].in.maxTokens).results

(* An invocation with no_merge and merge_threshold 0 has returned blocks   *)
(* that merge_ranked_blocks would have joined.                             *)
C20_Witness ==
    /\ Done(inv[1])
    /\ inv[1].in.noMerge
    /\ inv[1].in.mergeThreshold = 0
    /\ ~inv[1].in.filesOnly
    /\ inv[1].sid # NoSession
    /\ MergeRankedBlocks(inv[1].results, 0) # inv[1].results

(* C23: the stages of one invocation run in the order ranking, final      *)
(* cache filter, limits, optional merge, cache insert: the regions of the  *)
(* session cache change only in a step taken after the merge step, or      *)
(* after the limits when the invocation does not merge.                    *)
C23_CacheWrittenAfterMerge ==
    [][ cache'.entries # cache.entries =>
          \/ inv[1].pc = "ins2"
          \/ /\ inv[1].pc = "ins1"
             /\ (inv[1].in.noMerge \/ inv[1].limited = <<>>) ]_vars

(* C24: when an invocation with an effective session has returned in      *)
(* normal mode (no cache operation fails under Spec), the region of every  *)
(* result it returned, merged or not, is in the cache of its session, and  *)
(* inserting the returned results once more leaves the cache as it is.     *)
C24_ReturnedRegionsCached ==
    (Done(inv[1]) /\ inv[1].sid # NoSession /\ ~inv[1].in.filesOnly
       /\ Plans[inv[1].in.query].ok) =>
        /\ Regions(inv[1].results) \subseteq RangesOf(cache, inv[1].sid)
        /\ CacheInsert(cache, inv[1].sid, inv[1].results) = cache

(* An invocation with a session has returned a merged block. *)
C24_Witness ==
    /\ Done(inv[1])
    /\ inv[1].sid # NoSession
    /\ ~inv[1].in.filesOnly
    /\ inv[1].results # <<>>
    /\ Regions(inv[1].results) # Regions(inv[1].limited)

(* C29: the results that perform_probe returns, after the optional merge, *)
(* are within every limit that was given: their number is at most          *)
(* max_results, the total length of their code at most max_bytes, and the  *)
(* total token count of their code at most max_tokens.                     *)
C29_ReturnedWithinLimits ==
    (Done(inv[1]) /\ inv[1].ret = "Ok") =>
        LET res == inv[1].results
        IN  /\ Within(inv[1].in.maxResults, Len(res))
            /\ Within(inv[1].in.maxBytes, SumSeq([i \in 1..Len(res) |-> CodeBytes(res[i])]))
            /\ Within(inv[1].in.maxTokens, SumSeq([i \in 1..Len(res) |-> CodeTokens(res[i])]))

(* The files of a list of results. *)
FilesOf(results) == {results[i].file : i \in 1..Len(results)}

(* C30: in files-only mode the session cache is neither consulted nor      *)
(* updated, also with an effective session: when the invocation has        *)
(* returned, the regions of its session are those of its start, nothing    *)
(* was filtered against the cache, cached_blocks_skipped is absent, one    *)
(* result was built for every candidate file, and an invocation that       *)
(* repeats the one before it returns the same set of files.                *)
C30_FilesOnlyLeavesCache ==
    (Done(inv[1]) /\ inv[1].in.filesOnly /\ inv[1].ret = "Ok"
       /\ Plans[inv[1].in.query].ok) =>
        /\ RangesOf(cache, inv[1].sid) = inv[1].ranges0
        /\ inv[1].earlySkipped = 0
        /\ inv[1].cachedSkipped = 0
        /\ FilesOf(inv[1].handed) = inv[1].files
        /\ (runs = MaxWarm + 2 /\ last.in = inv[1].in /\ last.sid = inv[1].sid) =>
               FilesOf(inv[1].results) = FilesOf(last.results)

(* Region r lies within region b of the same file. *)
Inside(r, b) == r.file = b.file /\ b.s <= r.s /\ r.e <= b.e

(* The blocks that the limits cut off, and the regions that the invocation *)
(* added to the cache of its session.                                      *)
CutOff(x) == {x.handed[i] : i \in (Len(x.limited) + 1)..Len(x.handed)}

InsertedBy(x) == RangesOf(cache, x.sid) \ x.ranges0

(* An invocation with a session has returned in normal mode. *)
ReturnedWithSession(x) ==
    /\ Done(x) /\ x.ret = "Ok" /\ x.sid # NoSession
    /\ ~x.in.filesOnly /\ Plans[x.in.query].ok

(* C31: only returned regions are cached: every region that an invocation *)
(* inserted into the cache of its session lies within the region of a      *)
(* result it returned; a block cut off by the limits is not inserted and   *)
(* is not filtered against the cache by a later invocation of the session. *)
C31_OnlyReturnedCached ==
    ReturnedWithSession(inv[1]) =>
        /\ \A r \in InsertedBy(inv[1]) :
              \E b \in Regions(inv[1].results) : Inside(r, b)
        /\ \A c \in CutOff(inv[1]) :
              /\ RegionOf(c) \notin InsertedBy(inv[1])
              /\ FilterResults(<<c>>, RangesOf(cache, inv[1].sid)).results = <<c>>

(* C31, amended: every region that an invocation inserted into the cache  *)
(* of its session lies within the region of a result it returned; a block  *)
(* cut off by the limits is not inserted, and a later invocation of the    *)
(* session filters it against the cache only when it overlaps the region   *)
(* of a result that was returned.                                          *)
C31_CutOffHiddenOnlyByReturned ==
    ReturnedWithSession(inv[1]) =>
        /\ \A r \in InsertedBy(inv[1]) :
              \E b \in Regions(inv[1].results) : Inside(r, b)
        /\ \A c \in CutOff(inv[1]) :
              /\ RegionOf(c) \notin InsertedBy(inv[1])
              /\ \/ FilterResults(<<c>>, RangesOf(cache, inv[1].sid)).results = <<c>>
                 \/ \E b \in Regions(inv[1].results) : Overlaps(RegionOf(c), b)

(* An invocation with a session returned results and inserted them, and    *)
(* the limits cut off a block that overlaps none of them and a block that   *)
(* overlaps one.                                                            *)
C31_Witness ==
    /\ ReturnedWithSession(inv[1])
    /\ InsertedBy(inv[1]) # {}
    /\ \E c \in CutOff(inv[1]) :
          FilterResults(<<c>>, RangesOf(cache, inv[1].sid)).results = <<c>>
    /\ \E c \in CutOff(inv[1]) :
          \E b \in Regions(inv[1].results) : Overlaps(RegionOf(c), b)

----------------------------------------------------------------------------
(* Properties of perform_probe under failing cache operations, checked     *)
(* under FailSpec.                                                         *)

Logged(me, msg) == \E i \in 1..Len(me.stderr) : me.stderr[i] = msg

(* The results of the invocation `me` computed from its inputs and from    *)
(* the cached regions of its session at its start, with the cache          *)
(* operations that logged an error left out.  A failed session id          *)
(* generation leaves the invocation without a session.                     *)
ResultsWithout(me) ==
    LET in == me.in
        cand == Candidates(in)
        early == me.sid # NoSession /\ ~Logged(me, "Error applying early cache")
        final == me.sid # NoSession /\ ~Logged(me, "Error applying cache")
        map1 == IF early THEN FilterMatchedLines(cand.map, me.ranges0).map ELSE cand.map
        ranked == Extracted([in |-> in, hitMap |-> map1, files |-> cand.files \cap DOMAIN map1])
        kept == IF final THEN FilterResults(ranked, me.ranges0).results ELSE ranked
        lim == ApplyLimits(kept, in.maxResults, in.maxBytes, in.maxTokens).results
    IN  IF lim # <<>> /\ ~in.noMerge THEN MergeRankedBlocks(lim, in.mergeThreshold) ELSE lim

FilesOnlyResults(me) ==
    {ApplyLimits([i \in 1..Len(order) |-> FileResult(order[i])],
                 me.in.maxResults, me.in.maxBytes, me.in.maxTokens).results :
        order \in Orders(Candidates(me.in).files)}

(* C10: when a session-cache operation of an invocation returns an error   *)
(* (session id generation, early filter, final filter, insert of the       *)
(* limited results, insert of the merged results), perform_probe still     *)
(* returns Ok and its results are those of the invocation with the failed  *)
(* operations not performed.                                               *)
C10_CacheFailureNotFatal ==
    (Done(inv[1]) /\ inv[1].stderr # <<>>) =>
        /\ inv[1].ret = "Ok"
        /\ Logged(inv[1], "Error generating session ID") => inv[1].sid = NoSession
        /\ IF ~Plans[inv[1].in.query].ok THEN inv[1].results = <<>>
           ELSE IF inv[1].in.filesOnly THEN inv[1].results \in FilesOnlyResults(inv[1])
           ELSE inv[1].results = ResultsWithout(inv[1])

(* Both filters failed on a session with cached regions, and a region      *)
(* returned before is returned again.                                      *)
C10_Witness ==
    /\ Done(inv[1])
    /\ Logged(inv[1], "Error applying early cache")
    /\ Logged(inv[1], "Error applying cache")
    /\ inv[1].ret = "Ok"
    /\ inv[1].in.noMerge
    /\ \E r \in Regions(inv[1].results) : r \in inv[1].ranges0

(* C11: after the first cache operation of an invocation has failed, the   *)
(* invocation attempts no further cache operation: it logs no second       *)
(* message, filters nothing more against the cache and inserts nothing     *)
(* into it.                                                                *)
C11_CachingDisabledAfterFailure ==
    [][ (inv[1].stderr # <<>> /\ inv[1].pc \notin {"idle", "done"})
          => /\ cache' = cache
             /\ inv'[1].stderr = inv[1].stderr
             /\ inv'[1].cachedSkipped = inv[1].cachedSkipped ]_vars

(* The files whose entry the early cache filter removed from the hit map. *)
RemovedByEarlyCache(x) ==
    LET before == CHOOSE c \in {Candidates(x.in)} : TRUE
    IN  DOMAIN before.map \ DOMAIN x.hitMap

(* C32: at the start of block extraction every candidate file has an      *)
(* entry in the hit map, with or without a session and also after an        *)
(* error of the early cache filter; a file whose entry the early cache     *)
(* filter removed is not a candidate any more.                             *)
C32_CandidatesHaveEntries ==
    inv[1].pc = "final" =>
        /\ inv[1].files \subseteq DOMAIN inv[1].hitMap
        /\ inv[1].files \cap RemovedByEarlyCache(inv[1]) = {}

(* Block extraction starts after the early cache filter removed the entry  *)
(* of one file and left the entry of another.                              *)
C32_Witness ==
    /\ inv[1].pc = "final"
    /\ inv[1].sid # NoSession
    /\ inv[1].files # {}
    /\ RemovedByEarlyCache(inv[1]) # {}

----------------------------------------------------------------------------
(* Properties of perform_probe on damaged trees, checked under TreeSpec.   *)

(* C12: when the query does not parse, perform_probe returns Ok with empty *)
(* results, empty skipped_files, no limits_applied and no                  *)
(* cached_blocks_skipped, and no file has been scanned: the hit map and    *)
(* the candidate set are empty and nothing was handed to the limiter.      *)
C12_ParseFailureEmptyOk ==
    (Done(inv[1]) /\ ~Plans[inv[1].in.query].ok) =>
        /\ inv[1].ret = "Ok"
        /\ inv[1].results = <<>>
        /\ inv[1].skippedFiles = <<>>
        /\ ~inv[1].limitsApplied
        /\ inv[1].cachedSkipped = 0
        /\ inv[1].hitMap = <<>> /\ inv[1].files = {} /\ inv[1].handed = <<>>
        /\ cache.entries = {}

(* A query that does not parse, with a session and a limit, on a root that *)
(* cannot be listed.                                                       *)
C12_Witness ==
    /\ Done(inv[1])
    /\ ~Plans[inv[1].in.query].ok
    /\ inv[1].ret = "Ok"
    /\ ~inv[1].in.path.listable
    /\ inv[1].sid = "T"
    /\ inv[1].in.maxResults = 1

(* The files of the invocation that fail: those that cannot be read, and, *)
(* outside files-only mode (which extracts no block), those whose block    *)
(* extraction fails.                                                       *)
BadFiles(in) ==
    (in.path.noRead \cup (IF in.filesOnly THEN {} ELSE in.path.noProcess)) \cap in.path.files

(* The invocation as it would be on the tree without its failing files. *)
OnTreeWithout(me, bad) ==
    [me EXCEPT !.in.path = Root(me.in.path.files \ bad, {}, {}, TRUE)]

(* C13: a file whose read or block extraction fails (in the scanner, in   *)
(* the filename matching or in the extraction loop) is skipped and nothing *)
(* else: perform_probe returns Ok, and its results are the results of the  *)
(* same invocation on the tree without the failing files.                  *)
C13_BadFileOnlySkipped ==
    (Done(inv[1]) /\ Plans[inv[1].in.query].ok /\ ~ScanFails(inv[1].in)) =>
        LET clean == OnTreeWithout(inv[1], BadFiles(inv[1].in))
        IN  /\ inv[1].ret = "Ok"
            /\ IF inv[1].in.filesOnly
               THEN inv[1].results \in FilesOnlyResults(clean)
               ELSE inv[1].results = ResultsWithout(clean)

(* The block extraction of a candidate file failed, another file could not *)
(* be read, and the invocation returned results of the remaining files.    *)
C13_Witness ==
    /\ Done(inv[1])
    /\ inv[1].ret = "Ok"
    /\ ~inv[1].in.filesOnly
    /\ inv[1].results # <<>>
    /\ inv[1].in.path.noRead # {}
    /\ inv[1].in.path.noRead # inv[1].in.path.noProcess
    /\ \E f \in inv[1].in.path.noProcess : f \in inv[1].files /\ f \in DOMAIN inv[1].hitMap

(* C14: perform_probe returns an error exactly when the combined regex    *)
(* does not compile or the file list of the root cannot be obtained; every *)
(* other invocation returns Ok.  (A query that does not parse returns Ok   *)
(* before the regex is built or the root is listed.)                       *)
C14_ErrOnlyWhenFatal ==
    Done(inv[1]) =>
        LET plan == Plans[inv[1].in.query]
            fatal == plan.ok /\ ( \/ ~Compiles(StructuredPatterns(plan))
                                  \/ ~inv[1].in.path.listable )
        IN  /\ inv[1].ret \in {"Ok", "Err"}
            /\ inv[1].ret = "Err" <=> fatal
            /\ inv[1].ret = "Err" => inv[1].results = <<>> /\ cache.entries = {}

(* The regex compiled and the root could not be listed: an error is        *)
(* returned.                                                               *)
C14_Witness ==
    /\ Done(inv[1])
    /\ inv[1].ret = "Err"
    /\ Compiles(StructuredPatterns(Plans[inv[1].in.query]))
    /\ ~inv[1].in.path.listable
    /\ inv[1].in.path.noRead # {}

(* The indices of the plan terms that the name of the file contains. *)
NameTerms(plan, f) ==
    {t \in 0..(Len(plan.terms) - 1) : Contains(plan.terms[t + 1], Tree[f].name)}

(* The hit map that enters the AST filter honours exclude_filenames: with  *)
(* the option set it is the scanner's output; without it, every file of    *)
(* `named` has, for each plan term its name contains, every line of the    *)
(* file recorded.                                                          *)
FilenameMatchingFor(in, named) ==
    LET plan == Plans[in.query]
        scanned == SearchWithStructuredPatterns(in.path, StructuredPatterns(plan))
        m == Matched(in)
    IN  IF in.excludeFilenames
        THEN m = scanned
        ELSE \A f \in named : \A t \in NameTerms(plan, f) :
               /\ f \in DOMAIN m
               /\ t \in DOMAIN m[f]
               /\ m[f][t] = 1..Len(Tree[f].lines)

(* C17 as stated: without exclude_filenames, every file of the file list   *)
(* whose name contains a plan term is admitted to the hit map for those    *)
(* terms.                                                                  *)
C17_EveryNamedFileAdmitted ==
    inv[1].pc = "filtered" => FilenameMatchingFor(inv[1].in, inv[1].in.path.files)

(* C17, amended: with exclude_filenames the hit map that enters the AST    *)
(* filter is the scanner's output; without it, every file of the file list *)
(* that can be read and has at least one line, and whose name contains a   *)
(* plan term, is in the hit map with all its lines recorded for those      *)
(* terms.                                                                  *)
C17_ReadableNamedFileAdmitted ==
    inv[1].pc = "filtered" =>
        FilenameMatchingFor(inv[1].in,
            {f \in inv[1].in.path.files :
                f \notin inv[1].in.path.noRead /\ Len(Tree[f].lines) > 0})

(* A file that the scanner did not hit is in the hit map because of its    *)
(* name, on a root that also holds the empty file.                         *)
C17_Witness ==
    /\ inv[1].pc = "filtered"
    /\ ~inv[1].in.excludeFilenames
    /\ EmptyFile \in inv[1].in.path.files
    /\ \E f \in DOMAIN Matched(inv[1].in) :
          /\ f \notin DOMAIN MatchedScanOnly(inv[1].in)
          /\ NameTerms(Plans[inv[1].in.query], f) # {}

(* The files that the filename matching selects: named by a plan term,    *)
(* readable, with at least one line.                                       *)
SelectedByName(in) ==
    {f \in in.path.files :
        /\ ~in.excludeFilenames
        /\ NameTerms(Plans[in.query], f) # {}
        /\ f \notin in.path.noRead
        /\ Len(Tree[f].lines) > 0}

(* C25: for a file selected by its name, the hit map that enters the AST   *)
(* filter holds every line of the file for each filename-matched term,     *)
(* holds every line that the content scan recorded for the file, and has   *)
(* no entry for a term that matched neither by name nor by content.        *)
(* Checked under TreeSpec.                                                 *)
C25_FilenameUnion ==
    inv[1].pc = "filtered" =>
        \E m \in {Matched(inv[1].in)} : \E sc \in {MatchedScanOnly(inv[1].in)} :
            \A f \in SelectedByName(inv[1].in) :
                LET named == NameTerms(Plans[inv[1].in.query], f)
                    scanTerms == IF f \in DOMAIN sc THEN DOMAIN sc[f] ELSE {}
                IN  /\ f \in DOMAIN m
                    /\ DOMAIN m[f] = named \cup scanTerms
                    /\ \A t \in named : m[f][t] = 1..Len(Tree[f].lines)
                    /\ \A t \in scanTerms : sc[f][t] \subseteq m[f][t]

(* A file selected by its name has content hits for another term. *)
C25_Witness ==
    /\ inv[1].pc = "filtered"
    /\ \E f \in SelectedByName(inv[1].in) :
          /\ f \in DOMAIN MatchedScanOnly(inv[1].in)
          /\ DOMAIN MatchedScanOnly(inv[1].in)[f]
                \ NameTerms(Plans[inv[1].in.query], f) # {}

(* C28: the hit map that the scanner returns has no empty entry.  Every   *)
(* file in it has at least one term index, every term index has at least   *)
(* one line number, and a file none of whose lines holds a plan term is    *)
(* not in it.  Checked under TreeSpec on the scan of every invocation.     *)
C28_NoEmptyEntries ==
    inv[1].pc = "filtered" =>
        \E sc \in {SearchWithStructuredPatterns(inv[1].in.path,
                        StructuredPatterns(Plans[inv[1].in.query]))} :
            /\ \A f \in DOMAIN sc :
                  /\ DOMAIN sc[f] # {}
                  /\ \A t \in DOMAIN sc[f] : sc[f][t] # {}
            /\ \A f \in inv[1].in.path.files :
                  (\A i \in 1..Len(Plans[inv[1].in.query].terms) :
                      ~OccursIn(Plans[inv[1].in.query].terms[i], f))
                  => f \notin DOMAIN sc

(* The scan has recorded hits for one file and none for another file that  *)
(* it could read.                                                          *)
C28_Witness ==
    /\ inv[1].pc = "filtered"
    /\ DOMAIN MatchedScanOnly(inv[1].in) # {}
    /\ \E f \in inv[1].in.path.files \ inv[1].in.path.noRead :
          /\ Len(Tree[f].lines) > 0
          /\ f \notin DOMAIN MatchedScanOnly(inv[1].in)

----------------------------------------------------------------------------
(* Properties of dry_run, checked under DrySpec.                           *)

(* The invocation with the same options but the other value of dry_run.    *)
DryTwin(me) == [me EXCEPT !.in.dryRun = ~me.in.dryRun]

(* C21: dry_run does not change what perform_probe does.  The results of   *)
(* an invocation are those that the invocation with the other value of     *)
(* dry_run computes from the same session cache, and the regions in the    *)
(* cache of its session afterwards are the regions before it plus those of *)
(* the limited and of the returned results of that other invocation.       *)
C21_DryRunIgnored ==
    (Done(inv[1]) /\ runs = MaxWarm + 1 /\ Plans[inv[1].in.query].ok) =>
        LET twin == DryTwin(inv[1])
        IN  IF inv[1].in.filesOnly
            THEN /\ inv[1].results \in FilesOnlyResults(twin)
                 /\ RangesOf(cache, inv[1].sid) = inv[1].ranges0
            ELSE \E res \in {ResultsWithout(twin)} :
                   /\ inv[1].results = res
                   /\ inv[1].sid # NoSession =>
                         RangesOf(cache, inv[1].sid)
                           = AddResults(AddResults(inv[1].ranges0, inv[1].limited), res)

(* A dry run on a session with cached regions has returned results and     *)
(* has added regions to the cache.                                         *)
C21_Witness ==
    /\ Done(inv[1])
    /\ inv[1].in.dryRun
    /\ ~inv[1].in.filesOnly
    /\ inv[1].results # <<>>
    /\ inv[1].ranges0 # {}
    /\ inv[1].cachedSkipped > 0
    /\ RangesOf(cache, inv[1].sid) # inv[1].ranges0

----------------------------------------------------------------------------
(* Properties of concurrent invocations, checked under ConcSpec.           *)

C34_NoBlockReturnedByBoth ==
    (/\ Done(inv[1]) /\ Done(inv[2])
     /\ inv[1].sid = inv[2].sid
     /\ inv[1].in.query = inv[2].in.query) =>
        Regions(inv[1].results) \cap Regions(inv[2].results) = {}

----------------------------------------------------------------------------
(* Properties of the scanner, checked under ScanSpec. *)

ScanLine(n) == scanIn.file.lines[n]

Ungrouped(patterns) == \A i \in 1..Len(patterns) : ~patterns[i].src.grp

(* C8: hit-map soundness of the scanner.  Every line recorded for a term   *)
(* index t contains a substring that matches, case-insensitively, a        *)
(* pattern entry whose term set contains t.                                *)
C8_HitMapSound ==
    (scanPc = "done" /\ scanOut.ok) =>
        \A t \in DOMAIN scanOut.map : \A n \in scanOut.map[t] :
            \E i \in 1..Len(scanIn.patterns) :
                /\ t \in scanIn.patterns[i].terms
                /\ Contains(scanIn.patterns[i].src.lit, ScanLine(n).text)

(* C9: capture-group fan-out.  When two entries of the pattern set match   *)
(* at the same position of a scanned line, the line is recorded for the    *)
(* term indices of both entries.  Stated for pattern sources without       *)
(* capture groups of their own, where group i is entry i-1.                *)
C9_FanOut ==
    (scanPc = "done" /\ scanOut.ok /\ Ungrouped(scanIn.patterns)) =>
        \A n \in 1..Len(scanIn.file.lines) :
        \A i, j \in 1..Len(scanIn.patterns) :
        \A pos \in 1..Len(ScanLine(n).text) :
            ( /\ i # j
              /\ Scanned(ScanLine(n))
              /\ MatchesAt(scanIn.patterns[i].src.lit, ScanLine(n).text, pos)
              /\ MatchesAt(scanIn.patterns[j].src.lit, ScanLine(n).text, pos) )
            => \A t \in scanIn.patterns[i].terms \cup scanIn.patterns[j].terms :
                   t \in DOMAIN scanOut.map /\ n \in scanOut.map[t]

(* C26: the scanner skips exactly the lines longer than 2000 bytes.  A    *)
(* longer line is recorded for no term; a line of at most 2000 bytes that  *)
(* a pattern matches is recorded (stated for pattern sources without       *)
(* capture groups of their own); and a recorded number is the 1-based      *)
(* position in the file of a line that was scanned and that a pattern      *)
(* matches, the skipped lines being counted.                               *)
C26_LongLinesSkipped ==
    (scanPc = "done" /\ scanOut.ok) =>
        LET recorded == UNION {scanOut.map[t] : t \in DOMAIN scanOut.map}
            matches(n) == \E i \in 1..Len(scanIn.patterns) :
                             Contains(scanIn.patterns[i].src.lit, ScanLine(n).text)
        IN  /\ \A n \in 1..Len(scanIn.file.lines) :
                  /\ LineBytes(ScanLine(n)) > 2000 => n \notin recorded
                  /\ ( /\ LineBytes(ScanLine(n)) <= 2000
                       /\ Ungrouped(scanIn.patterns)
                       /\ matches(n) ) => n \in recorded
            /\ \A n \in recorded :
                  /\ n \in 1..Len(scanIn.file.lines)
                  /\ LineBytes(ScanLine(n)) <= 2000
                  /\ matches(n)

(* The first line is longer than 2000 bytes and holds a match, the second  *)
(* has exactly 2000 bytes, and only line 2 is recorded.                    *)
C26_Witness ==
    /\ scanPc = "done" /\ scanOut.ok
    /\ Len(scanIn.file.lines) = 2
    /\ LineBytes(ScanLine(1)) = 2001
    /\ LineBytes(ScanLine(2)) = 2000
    /\ \E t \in DOMAIN scanOut.map : scanOut.map[t] = {2}

(* C27: a file that can be read but holds, besides the lines listed, an   *)
(* invalid UTF-8 byte sequence (utf8 = FALSE) is still scanned: the scan   *)
(* succeeds, and every line of at most 2000 bytes that a pattern matches   *)
(* is in the returned map (stated for pattern sources without capture      *)
(* groups of their own).                                                   *)
C27_InvalidUtf8Scanned ==
    (scanPc = "done" /\ scanIn.file.readable /\ ~scanIn.file.utf8) =>
        /\ scanOut.ok
        /\ Ungrouped(scanIn.patterns) =>
              \A n \in 1..Len(scanIn.file.lines) :
                  ( /\ LineBytes(ScanLine(n)) <= 2000
                    /\ \E i \in 1..Len(scanIn.patterns) :
                          Contains(scanIn.patterns[i].src.lit, ScanLine(n).text) )
                  => \E t \in DOMAIN scanOut.map : n \in scanOut.map[t]

====
